---- MODULE Spec2Model ----
(***************************************************************************)
(* The conversation session of gemini_bot.py: a Streamlit script that is   *)
(* run top to bottom once per user interaction (and once more after each   *)
(* st.rerun()), over the per-session dictionary st.session_state.          *)
(*                                                                         *)
(* A text is a sequence of one-character strings, so that slicing          *)
(* (str(e)[:100]), joining, upper-casing and substring tests are computed  *)
(* the way the script computes them.                                       *)
(***************************************************************************)
EXTENDS Integers, Sequences, FiniteSets, TLC

\* Python's None.
None == [type |-> "NoneType"]

\* Bounds of the model: the turns taken on one transcript before it is
\* reset, and the point where the gateway call counters saturate.
MaxTurns == 2

CallCap == 3

\* str(e)[:100] in the except branch.
TruncLen == 100

\* ---------------------------------------------------------------- texts
LowerLetters == <<"a","b","c","d","e","f","g","h","i","j","k","l","m","n","o","p","q","r","s","t","u","v","w","x","y","z">>

UpperLetters == <<"A","B","C","D","E","F","G","H","I","J","K","L","M","N","O","P","Q","R","S","T","U","V","W","X","Y","Z">>

MarkerApiKey == <<"A","P","I","_","K","E","Y">>

MarkerPermissionDenied == <<"P","E","R","M","I","S","S","I","O","N","_","D","E","N","I","E","D">>

MarkerUnauthenticated == <<"U","N","A","U","T","H","E","N","T","I","C","A","T","E","D">>

MarkerResourceExhausted == <<"R","E","S","O","U","R","C","E","_","E","X","H","A","U","S","T","E","D">>

BlockedDueToPrefix == <<"R","e","s","p","o","n","s","e"," ","b","l","o","c","k","e","d"," ","d","u","e"," ","t","o",":"," ">>

BlockedDueToSuffix == <<"."," ","P","l","e","a","s","e"," ","r","e","p","h","r","a","s","e"," ","y","o","u","r"," ","p","r","o","m","p","t",".">>

EmptyResponseText == <<"S","o","r","r","y",","," ","I"," ","r","e","c","e","i","v","e","d"," ","a","n"," ","e","m","p","t","y"," ","r","e","s","p","o","n","s","e"," ","f","r","o","m"," ","t","h","e"," ","m","o","d","e","l","."," ","P","l","e","a","s","e"," ","t","r","y"," ","a","g","a","i","n"," ","o","r"," ","r","e","p","h","r","a","s","e",".">>

InvalidResponseText == <<"S","o","r","r","y",","," ","I"," ","d","i","d","n","'","t"," ","g","e","t"," ","a"," ","v","a","l","i","d"," ","r","e","s","p","o","n","s","e","."," ","P","l","e","a","s","e"," ","t","r","y"," ","a","g","a","i","n",".">>

BlockedExcPrefix == <<"R","e","s","p","o","n","s","e"," ","b","l","o","c","k","e","d","."," ","R","e","a","s","o","n",":"," ">>

StoppedExcPrefix == <<"R","e","s","p","o","n","s","e"," ","g","e","n","e","r","a","t","i","o","n"," ","s","t","o","p","p","e","d","."," ","R","e","a","s","o","n",":"," ">>

CriticalPrefix == <<"C","r","i","t","i","c","a","l"," ","A","P","I"," ","E","r","r","o","r","."," ","P","l","e","a","s","e"," ","c","h","e","c","k"," ","l","o","g","s"," ","a","n","d"," ",".","e","n","v"," ","f","i","l","e","."," ","E","r","r","o","r",":"," ">>

QuotaPrefix == <<"E","r","r","o","r",":"," ","R","e","s","o","u","r","c","e"," ","e","x","h","a","u","s","t","e","d","."," ">>

UnexpectedPrefix == <<"S","o","r","r","y",","," ","a","n"," ","u","n","e","x","p","e","c","t","e","d"," ","e","r","r","o","r"," ","o","c","c","u","r","r","e","d",":"," ">>

Ellipsis == <<".",".",".">>

\* ------------------------------------------------- inputs of the model
\* Prompts typed into st.chat_input, fragments and details the remote API
\* may return or raise, and the values st.secrets may hold for the key.
PromptA == <<"h","i">>

PromptB == <<"y","o">>

TextHel == <<"H","e","l">>

TextLo == <<"l","o">>

DetailDenied == <<"4","0","3"," ","P","E","R","M","I","S","S","I","O","N","_","D","E","N","I","E","D">>

DetailQuota == <<"4","2","9"," ","R","E","S","O","U","R","C","E","_","E","X","H","A","U","S","T","E","D">>

DetailShort == <<"t","i","m","e","o","u","t">>

DetailBlocked == <<"b","l","o","c","k","_","r","e","a","s","o","n",":"," ","S","A","F","E","T","Y">>

DetailStopped == <<"f","i","n","i","s","h","_","r","e","a","s","o","n",":"," ","P","E","R","M","I","S","S","I","O","N","_","D","E","N","I","E","D">>

ReasonSafety == <<"S","A","F","E","T","Y">>

Prompts == {PromptA, PromptB}

Keys == {"k1", "k2"}

\* What st.secrets["GOOGLE_API_KEY"] may hold when a script run reads it.
KeyValues == Keys \cup {""}

\* ------------------------------------------------------- Python values
\* st.session_state is a dictionary: a function whose domain is the set
\* of keys present.  "k in d", "del d[k]" and "d[k] = v":
Has(d, k) == k \in DOMAIN d

Del(d, k) == [j \in DOMAIN d \ {k} |-> d[j]]

Put(d, k, v) == (k :> v) @@ d

\* st.session_state.get(k, default)
Get(d, k, default) == IF Has(d, k) THEN d[k] ELSE default

EmptyDict == [j \in {} |-> FALSE]

\* The object genai.GenerativeModel(...) returns; api_key is the key
\* genai.configure was last given when the object was made.
ModelHandle(key) ==
    [type |-> "GenerativeModel", model_name |-> "models/gemini-1.5-flash-latest",
     api_key |-> key]

\* The object model.start_chat(history=[]) returns; sent counts the
\* send_message calls made on it (none when fresh).
ChatSession(model) == [type |-> "ChatSession", model |-> model, sent |-> 0]

Message(role, content) == [role |-> role, content |-> content]

\* What chat_session.send_message may do: return a response exposing
\* parts, prompt_feedback and candidates[0].content.parts, or raise.
BlockReason(name, value) == [type |-> "BlockReason", name |-> name, value |-> value]

PromptFeedback(reason, message) ==
    [type |-> "PromptFeedback", block_reason |-> reason, block_reason_message |-> message]

Response(parts, feedback, candidate_parts) ==
    [kind |-> "response", parts |-> parts, prompt_feedback |-> feedback,
     candidate_parts |-> candidate_parts, cls |-> "", text |-> <<>>]

Raised(cls, text) ==
    [kind |-> "raise", parts |-> <<>>, prompt_feedback |-> None,
     candidate_parts |-> <<>>, cls |-> cls, text |-> text]

Safety == BlockReason(ReasonSafety, 1)

Responses ==
    { Response(<<TextHel, TextLo>>, None, <<TextHel, TextLo>>),
      Response(<<>>, PromptFeedback(Safety, <<>>), <<>>),
      Response(<<>>, None, <<>>),
      Raised("Exception", DetailDenied),
      Raised("Exception", DetailQuota),
      Raised("Exception", DetailShort),
      Raised("BlockedPromptException", DetailBlocked),
      Raised("StopCandidateException", DetailStopped) }

\* ------------------------------------------------------ text functions
\* str.upper(), character by character.
UpperChar(c) ==
    IF \E i \in 1..Len(LowerLetters) : LowerLetters[i] = c
    THEN UpperLetters[CHOOSE i \in 1..Len(LowerLetters) : LowerLetters[i] = c]
    ELSE c

Upper(s) == <<>> \o [i \in 1..Len(s) |-> UpperChar(s[i])]

\* "needle in haystack"
Contains(haystack, needle) ==
    \E i \in 0..(Len(haystack) - Len(needle)) :
        SubSeq(haystack, i + 1, i + Len(needle)) = needle

\* s[:n]
Prefix(s, n) == SubSeq(s, 1, IF Len(s) < n THEN Len(s) ELSE n)

\* "".join(part.text for part in response.parts)
\* Mutant: the fragments are joined with a space between them.
RECURSIVE JoinSpaced(_)
JoinSpaced(parts) ==
    IF parts = <<>> THEN <<>>
    ELSE IF Tail(parts) = <<>> THEN Head(parts)
         ELSE Head(parts) \o <<" ">> \o JoinSpaced(Tail(parts))

RECURSIVE Join(_)
Join(parts) == IF parts = <<>> THEN <<>> ELSE Head(parts) \o Join(Tail(parts))

\* bool(x) for the objects the script tests: None and an enum member of
\* value 0 are false, an empty text is false.
Truthy(v) == v # None /\ (v.type = "BlockReason" => v.value # 0)

\* --------------------------------------------------------------- state
VARIABLES
    session_state,  \* st.session_state of the one UI session
    API_KEY,        \* the module global read from st.secrets by the last run
    genai_key,      \* the key genai.configure last accepted (process wide)
    rerun_pending,  \* the last run ended in st.rerun(): a run follows at once
    widgets,        \* which input widgets the last run put on the page
    event,          \* what started the last run
    calls,          \* the gateway calls the last run made
    failed,         \* those of them that failed (configure, model, session)
    outcome,        \* the outcome of the turn the last run took, or "none"
    reply,          \* what send_message answered in the last run, or NoReply
    cred_error,     \* a turn ended in the API-key branch, no configure since
    turns,          \* the turns taken since the transcript was last reset
    nConfigure,     \* genai.configure calls so far (saturating)
    nInit           \* genai.GenerativeModel calls so far (saturating)

vars == <<session_state, API_KEY, genai_key, rerun_pending, widgets, event,
          calls, failed, outcome, reply, cred_error, turns, nConfigure, nInit>>

\* The transcript as the page shows it: no "messages" key shows nothing.
Transcript(ss) == Get(ss, "messages", <<>>)

\* One run of the script is a fold of its blocks over a run record.
StartRun(ss, key) ==
    [ss |-> ss, genai_key |-> key, calls |-> {}, failed |-> {}, outcome |-> "none",
     button |-> FALSE, chat_input |-> FALSE, rerun |-> FALSE, stopped |-> FALSE,
     reset |-> FALSE]

Called(r, op, ok) ==
    [r EXCEPT !.calls = @ \cup {op}, !.failed = IF ok THEN @ ELSE @ \cup {op}]

\* ------------------------------------------- initial configuration block
SetDefaults(ss) ==
    LET s1 == IF Has(ss, "api_configured") THEN ss ELSE Put(ss, "api_configured", FALSE)
    IN  IF Has(s1, "attempted_initial_config") THEN s1
        ELSE Put(s1, "attempted_initial_config", FALSE)

\* Mutant: configure on every run, whatever the flags say.
ShouldConfigureAlways(ss) == TRUE

ShouldConfigure(ss) == ~ss.api_configured /\ ~ss.attempted_initial_config

ResetOnConfigure(ss) ==
    LET s1 == IF Has(ss, "gemini_model") THEN Del(ss, "gemini_model") ELSE ss
        s2 == IF Has(s1, "chat_session") THEN Del(s1, "chat_session") ELSE s1
    IN  IF Has(s2, "messages") THEN Put(s2, "messages", <<>>) ELSE s2

\* Mutant: the attempt is never recorded.
MarkAttemptedNever(ss) == ss

MarkAttempted(ss) == Put(ss, "attempted_initial_config", TRUE)

\* Mutant: the block runs again whenever the key differs from the one
\* configure last accepted.
ConfigBlockOnKeyChange(r, key, cfgOk) ==
    LET ss == SetDefaults(r.ss)
    IN  IF ShouldConfigure(ss) \/ (key # "" /\ key # r.genai_key)
        THEN IF key # ""
             THEN IF cfgOk
                  THEN [Called(r, "configure", TRUE) EXCEPT
                           !.ss = MarkAttempted(ResetOnConfigure(Put(ss, "api_configured", TRUE))),
                           !.genai_key = key,
                           !.reset = Has(ss, "messages")]
                  ELSE [Called(r, "configure", FALSE) EXCEPT
                           !.ss = MarkAttempted(Put(ss, "api_configured", FALSE))]
             ELSE [r EXCEPT !.ss = MarkAttempted(Put(ss, "api_configured", FALSE))]
        ELSE [r EXCEPT !.ss = ss]

ConfigBlock(r, key, cfgOk) ==
    LET ss == SetDefaults(r.ss)
    IN  IF ShouldConfigure(ss)
        THEN IF key # ""
             THEN IF cfgOk
                  THEN [Called(r, "configure", TRUE) EXCEPT
                           !.ss = MarkAttempted(ResetOnConfigure(Put(ss, "api_configured", TRUE))),
                           !.genai_key = key,
                           !.reset = Has(ss, "messages")]
                  ELSE [Called(r, "configure", FALSE) EXCEPT
                           !.ss = MarkAttempted(Put(ss, "api_configured", FALSE))]
             ELSE [r EXCEPT !.ss = MarkAttempted(Put(ss, "api_configured", FALSE))]
        ELSE [r EXCEPT !.ss = ss]

\* ----------------------------------------------------------- sidebar
\* Mutant: the button drops the model handle too.
ClearDropsModel(ss) ==
    LET s1 == Put(ss, "messages", <<>>)
        s2 == IF Has(s1, "chat_session") THEN Del(s1, "chat_session") ELSE s1
    IN  IF Has(s2, "gemini_model") THEN Del(s2, "gemini_model") ELSE s2

\* Mutant: the button empties the transcript and keeps the chat session.
ClearKeepsSession(ss) == Put(ss, "messages", <<>>)

ClearChatHistory(ss) ==
    LET s1 == Put(ss, "messages", <<>>)
    IN  IF Has(s1, "chat_session") THEN Del(s1, "chat_session") ELSE s1

Sidebar(r, ev) ==
    IF Get(r.ss, "api_configured", FALSE)
    THEN IF ev.kind = "clear"
         THEN [r EXCEPT !.button = TRUE, !.ss = ClearChatHistory(@),
                        !.rerun = TRUE, !.stopped = TRUE, !.reset = TRUE]
         ELSE [r EXCEPT !.button = TRUE]
    ELSE r

\* ------------------------------------------------------ main chat logic
initialize_gemini_model(ok, key) == IF ok THEN ModelHandle(key) ELSE None

\* Mutant: a None left by a failed initialization is initialized again.
EnsureModelRetries(r, initOk) ==
    IF r.stopped \/ ~Get(r.ss, "api_configured", FALSE) THEN r
    ELSE LET r1 == IF ~Has(r.ss, "gemini_model") \/ ~Truthy(r.ss.gemini_model)
                   THEN [Called(r, "initializeModel", initOk) EXCEPT
                            !.ss = Put(@, "gemini_model",
                                       initialize_gemini_model(initOk, r.genai_key))]
                   ELSE r
         IN  IF ~Truthy(r1.ss.gemini_model) THEN [r1 EXCEPT !.stopped = TRUE] ELSE r1

EnsureModel(r, initOk) ==
    IF r.stopped \/ ~Get(r.ss, "api_configured", FALSE) THEN r
    ELSE LET r1 == IF ~Has(r.ss, "gemini_model")
                   THEN [Called(r, "initializeModel", initOk) EXCEPT
                            !.ss = Put(@, "gemini_model",
                                       initialize_gemini_model(initOk, r.genai_key))]
                   ELSE r
         IN  IF ~Truthy(r1.ss.gemini_model) THEN [r1 EXCEPT !.stopped = TRUE] ELSE r1

\* Mutant: a failed start_chat does not stop the run.
EnsureChatSessionNoStop(r, openOk) ==
    IF r.stopped \/ ~Get(r.ss, "api_configured", FALSE) \/ Has(r.ss, "chat_session") THEN r
    ELSE IF openOk
         THEN [Called(r, "openSession", TRUE) EXCEPT
                  !.ss = Put(@, "chat_session", ChatSession(r.ss.gemini_model))]
         ELSE Called(r, "openSession", FALSE)

EnsureChatSession(r, openOk) ==
    IF r.stopped \/ ~Get(r.ss, "api_configured", FALSE) \/ Has(r.ss, "chat_session") THEN r
    ELSE IF openOk
         THEN [Called(r, "openSession", TRUE) EXCEPT
                  !.ss = Put(@, "chat_session", ChatSession(r.ss.gemini_model))]
         ELSE [Called(r, "openSession", FALSE) EXCEPT !.stopped = TRUE]

EnsureMessages(r) ==
    IF r.stopped \/ ~Get(r.ss, "api_configured", FALSE) \/ Has(r.ss, "messages") THEN r
    ELSE [r EXCEPT !.ss = Put(@, "messages", <<>>)]

\* Mutant: the new message is put in front of the transcript.
AppendMessageInFront(ss, m) == Put(ss, "messages", <<m>> \o ss.messages)

AppendMessage(ss, m) == Put(ss, "messages", Append(ss.messages, m))

\* --------------------------------------------------- response handling
ResponseOutcome(resp) ==
    IF resp.parts # <<>> THEN "Reply"
    ELSE IF Truthy(resp.prompt_feedback) /\ Truthy(resp.prompt_feedback.block_reason)
         THEN "Blocked"
         ELSE "Empty"

\* Mutant: a blocked response is reported without its reason.
ResponseContentNoReason(resp) ==
    IF resp.parts # <<>> THEN Join(resp.parts)
    ELSE IF Truthy(resp.prompt_feedback) /\ Truthy(resp.prompt_feedback.block_reason)
         THEN BlockedDueToPrefix \o BlockedDueToSuffix
         ELSE IF resp.candidate_parts = <<>> THEN EmptyResponseText
              ELSE InvalidResponseText

ResponseContent(resp) ==
    IF resp.parts # <<>> THEN Join(resp.parts)
    ELSE IF Truthy(resp.prompt_feedback) /\ Truthy(resp.prompt_feedback.block_reason)
         THEN BlockedDueToPrefix
              \o (IF resp.prompt_feedback.block_reason_message # <<>>
                  THEN resp.prompt_feedback.block_reason_message
                  ELSE resp.prompt_feedback.block_reason.name)
              \o BlockedDueToSuffix
         ELSE IF resp.candidate_parts = <<>> THEN EmptyResponseText
              ELSE InvalidResponseText

\* ------------------------------------------------ error classification
IsApiKeyError(text) ==
    \/ Contains(Upper(text), MarkerApiKey)
    \/ Contains(Upper(text), MarkerPermissionDenied)
    \/ Contains(Upper(text), MarkerUnauthenticated)

\* Mutant: resource exhaustion is tested before the API-key markers.
ClassifyQuotaFirst(e) ==
    IF e.cls = "BlockedPromptException" THEN "BlockedPrompt"
    ELSE IF e.cls = "StopCandidateException" THEN "StopCandidate"
    ELSE IF Contains(Upper(e.text), MarkerResourceExhausted) THEN "QuotaError"
    ELSE IF IsApiKeyError(e.text) THEN "CredentialError"
    ELSE "OtherError"

Classify(e) ==
    IF e.cls = "BlockedPromptException" THEN "BlockedPrompt"
    ELSE IF e.cls = "StopCandidateException" THEN "StopCandidate"
    ELSE IF IsApiKeyError(e.text) THEN "CredentialError"
    ELSE IF Contains(Upper(e.text), MarkerResourceExhausted) THEN "QuotaError"
    ELSE "OtherError"

ErrorContent(e) ==
    LET k == Classify(e)
    IN  IF k = "BlockedPrompt" THEN BlockedExcPrefix \o e.text
        ELSE IF k = "StopCandidate" THEN StoppedExcPrefix \o e.text
        ELSE IF k = "CredentialError"
             THEN CriticalPrefix \o Prefix(e.text, TruncLen) \o Ellipsis
        ELSE IF k = "QuotaError"
             THEN QuotaPrefix \o Prefix(e.text, TruncLen) \o Ellipsis
        ELSE UnexpectedPrefix \o Prefix(e.text, TruncLen) \o Ellipsis

\* The API-key branch: the flag is cleared and both handles are deleted.
\* Mutant: the API-key branch deletes the handles and leaves the flag set.
\* Mutant: the API-key branch clears the flag and forgets the model handle.
InvalidateKeepsModel(ss) ==
    LET s1 == Put(ss, "api_configured", FALSE)
    IN  IF Has(s1, "chat_session") THEN Del(s1, "chat_session") ELSE s1

\* Mutant: the API-key branch also empties the transcript.
InvalidateClearsMessages(ss) ==
    LET s1 == Put(Put(ss, "api_configured", FALSE), "messages", <<>>)
        s2 == IF Has(s1, "gemini_model") THEN Del(s1, "gemini_model") ELSE s1
    IN  IF Has(s2, "chat_session") THEN Del(s2, "chat_session") ELSE s2

InvalidateKeepsFlag(ss) ==
    LET s1 == IF Has(ss, "gemini_model") THEN Del(ss, "gemini_model") ELSE ss
    IN  IF Has(s1, "chat_session") THEN Del(s1, "chat_session") ELSE s1

Invalidate(ss) ==
    LET s1 == Put(ss, "api_configured", FALSE)
        s2 == IF Has(s1, "gemini_model") THEN Del(s1, "gemini_model") ELSE s1
    IN  IF Has(s2, "chat_session") THEN Del(s2, "chat_session") ELSE s2

HandleResponse(r, resp) ==
    [r EXCEPT !.ss = AppendMessage(@, Message("model", ResponseContent(resp))),
              !.outcome = ResponseOutcome(resp)]

\* Mutant: no branch of the handler records a model message.
HandleExceptionNoMessage(r, e) ==
    IF Classify(e) = "CredentialError"
    THEN [r EXCEPT !.ss = Invalidate(@), !.outcome = Classify(e),
                   !.rerun = TRUE, !.stopped = TRUE]
    ELSE [r EXCEPT !.outcome = Classify(e)]

\* Mutant: the API-key branch records a model message like the others.
HandleExceptionAlwaysRecords(r, e) ==
    IF Classify(e) = "CredentialError"
    THEN [r EXCEPT !.ss = AppendMessage(Invalidate(@), Message("model", ErrorContent(e))),
                   !.outcome = Classify(e), !.rerun = TRUE, !.stopped = TRUE]
    ELSE [r EXCEPT !.ss = AppendMessage(@, Message("model", ErrorContent(e))),
                   !.outcome = Classify(e)]

\* Mutant: every exception invalidates the cached state.
HandleExceptionAlwaysInvalidates(r, e) ==
    IF Classify(e) = "CredentialError"
    THEN [r EXCEPT !.ss = Invalidate(@), !.outcome = Classify(e),
                   !.rerun = TRUE, !.stopped = TRUE]
    ELSE [r EXCEPT !.ss = Invalidate(AppendMessage(@, Message("model", ErrorContent(e)))),
                   !.outcome = Classify(e)]

HandleException(r, e) ==
    IF Classify(e) = "CredentialError"
    THEN [r EXCEPT !.ss = Invalidate(@), !.outcome = Classify(e),
                   !.rerun = TRUE, !.stopped = TRUE]
    ELSE [r EXCEPT !.ss = AppendMessage(@, Message("model", ErrorContent(e))),
                   !.outcome = Classify(e)]

send_message(ss) ==
    Put(ss, "chat_session", [ss.chat_session EXCEPT !.sent = @ + 1])

Turn(r, user_prompt, resp) ==
    LET r1 == [r EXCEPT !.ss = AppendMessage(@, Message("user", user_prompt))]
    IN  IF ~Has(r1.ss, "chat_session") THEN [r1 EXCEPT !.stopped = TRUE]
        ELSE LET r2 == [Called(r1, "send_message", resp.kind = "response") EXCEPT
                           !.ss = send_message(@)]
             IN  IF resp.kind = "response" THEN HandleResponse(r2, resp)
                 ELSE HandleException(r2, resp)

ChatInput(r, resp, ev) ==
    IF r.stopped \/ ~Get(r.ss, "api_configured", FALSE) THEN r
    ELSE IF ev.kind = "prompt"
         THEN Turn([r EXCEPT !.chat_input = TRUE], ev.prompt, resp)
         ELSE [r EXCEPT !.chat_input = TRUE]

\* ------------------------------------------------------------- actions
Saturate(n, called) == IF called /\ n < CallCap THEN n + 1 ELSE n

NoReply ==
    [kind |-> "none", parts |-> <<>>, prompt_feedback |-> None,
     candidate_parts |-> <<>>, cls |-> "", text |-> <<>>]

\* What a gateway call may answer: either way when the run makes the call,
\* and nothing to choose when it does not.
Answers(asked) == IF asked THEN BOOLEAN ELSE {TRUE}

AsksConfigure(ss, key) == ShouldConfigure(SetDefaults(ss)) /\ key # ""

AsksModel(r) ==
    ~r.stopped /\ Get(r.ss, "api_configured", FALSE) /\ ~Has(r.ss, "gemini_model")

AsksSession(r) ==
    ~r.stopped /\ Get(r.ss, "api_configured", FALSE) /\ ~Has(r.ss, "chat_session")

AsksReply(r, ev) ==
    ~r.stopped /\ Get(r.ss, "api_configured", FALSE) /\ ev.kind = "prompt"

\* One run of the script, started by ev, the environment answering each
\* gateway call as the run comes to it.
RunWith(ev, resps) ==
    \E key \in KeyValues :
    \E cfgOk \in Answers(AsksConfigure(session_state, key)) :
    \E r1 \in {Sidebar(ConfigBlock(StartRun(session_state, genai_key), key, cfgOk), ev)} :
    \E initOk \in Answers(AsksModel(r1)) :
    \E r2 \in {EnsureModel(r1, initOk)} :
    \E openOk \in Answers(AsksSession(r2)) :
    \E r3 \in {EnsureMessages(EnsureChatSession(r2, openOk))} :
    \E resp \in (IF AsksReply(r3, ev) THEN resps ELSE {NoReply}) :
    \E r \in {ChatInput(r3, resp, ev)} :
        /\ session_state' = r.ss
        /\ API_KEY' = key
        /\ genai_key' = r.genai_key
        /\ rerun_pending' = r.rerun
        /\ widgets' = [button |-> r.button, chat_input |-> r.chat_input]
        /\ event' = ev.kind
        /\ calls' = r.calls
        /\ failed' = r.failed \ {"send_message"}
        /\ outcome' = r.outcome
        /\ reply' = IF "send_message" \in r.calls THEN resp ELSE NoReply
        /\ cred_error' = IF r.outcome = "CredentialError" THEN TRUE
                         ELSE IF "configure" \in (r.calls \ r.failed) THEN FALSE
                              ELSE cred_error
        /\ turns' = IF r.reset THEN <<>>
                    ELSE IF r.outcome # "none"
                         THEN Append(turns, [prompt |-> ev.prompt, outcome |-> r.outcome])
                         ELSE turns
        /\ nConfigure' = Saturate(nConfigure, "configure" \in r.calls)
        /\ nInit' = Saturate(nInit, "initializeModel" \in r.calls)

Run(ev) == RunWith(ev, Responses)

Event(kind, prompt) == [kind |-> kind, prompt |-> prompt]

\* The page is loaded, or the user makes the script run again without
\* touching a widget.
ScriptRun ==
    /\ ~rerun_pending
    /\ Run(Event("run", <<>>))

\* The run st.rerun() starts.
Rerun ==
    /\ rerun_pending
    /\ Run(Event("rerun", <<>>))

\* "Clear Chat History" is pressed on the page the last run drew.
ClickClear ==
    /\ ~rerun_pending
    /\ widgets.button
    /\ Run(Event("clear", <<>>))

\* A prompt is submitted in the chat input the last run drew.
SubmitPrompt ==
    /\ ~rerun_pending
    /\ widgets.chat_input
    /\ Len(turns) < MaxTurns
    /\ \E p \in Prompts : Run(Event("prompt", p))

Init ==
    /\ session_state = EmptyDict
    /\ API_KEY = ""
    /\ genai_key = ""
    /\ rerun_pending = FALSE
    /\ widgets = [button |-> FALSE, chat_input |-> FALSE]
    /\ event = "none"
    /\ calls = {}
    /\ failed = {}
    /\ outcome = "none"
    /\ reply = NoReply
    /\ cred_error = FALSE
    /\ turns = <<>>
    /\ nConfigure = 0
    /\ nInit = 0

Next == ScriptRun \/ Rerun \/ ClickClear \/ SubmitPrompt

Spec == Init /\ [][Next]_vars

\* ------------------------------------------ turns on a wider input set
\* The same script, its turns answered from a wider set of responses and
\* errors: long, boundary-length and short details, markers in lower and
\* mixed case and in combination, parts with and without prompt feedback,
\* block reasons with and without a message.
RichTurns == 1

DetailLen == 150

TextOk == <<"o","k">>

TextHello == <<"H","e","l","l","o">>

ReasonMessage == <<"u","n","s","a","f","e"," ","p","r","o","m","p","t">>

DetailLowerKey == <<"a","p","i","_","k","e","y"," ","n","o","t"," ","v","a","l","i","d">>

DetailBoth == <<"R","E","S","O","U","R","C","E","_","E","X","H","A","U","S","T","E","D"," ","U","N","A","U","T","H","E","N","T","I","C","A","T","E","D">>

DetailMixedQuota == <<"R","e","s","o","u","r","c","e","_","E","x","h","a","u","s","t","e","d",":"," ","q","u","o","t","a">>

DetailBlockedKey == <<"b","l","o","c","k","_","r","e","a","s","o","n",":"," ","O","T","H","E","R"," ","A","P","I","_","K","E","Y">>

Digits == <<"0","1","2","3","4","5","6","7","8","9">>

\* The characters of s repeated over and over, n of them.
Cycle(s, n) == <<>> \o [i \in 1..n |-> s[((i - 1) % Len(s)) + 1]]

DetailLong == Cycle(Digits, DetailLen)

DetailAtLimit == Cycle(Digits, TruncLen)

DetailOverLimit == Cycle(Digits, TruncLen + 1)

RichResponses ==
    { Response(<<TextHel, TextLo>>, None, <<TextHel, TextLo>>),
      Response(<<TextHel, TextLo>>, PromptFeedback(Safety, ReasonMessage), <<TextHel, TextLo>>),
      Response(<<TextOk>>, None, <<TextOk>>),
      Response(<<TextLo, <<>>, TextHel>>, None, <<TextLo, <<>>, TextHel>>),
      Response(<<>>, PromptFeedback(Safety, <<>>), <<>>),
      Response(<<>>, PromptFeedback(Safety, ReasonMessage), <<>>),
      Response(<<>>, None, <<>>),
      Response(<<>>, None, <<TextOk>>),
      Raised("Exception", DetailDenied),
      Raised("Exception", DetailLowerKey),
      Raised("Exception", DetailBoth),
      Raised("Exception", DetailQuota),
      Raised("Exception", DetailMixedQuota),
      Raised("Exception", DetailShort),
      Raised("Exception", DetailAtLimit),
      Raised("Exception", DetailOverLimit),
      Raised("Exception", DetailLong),
      Raised("BlockedPromptException", DetailBlocked),
      Raised("BlockedPromptException", DetailBlockedKey),
      Raised("StopCandidateException", DetailStopped),
      Raised("StopCandidateException", DetailLong) }

SubmitRichPrompt ==
    /\ ~rerun_pending
    /\ widgets.chat_input
    /\ Len(turns) < RichTurns
    /\ RunWith(Event("prompt", PromptA), RichResponses)

NextRich == ScriptRun \/ Rerun \/ ClickClear \/ SubmitRichPrompt

SpecRich == Init /\ [][NextRich]_vars

\* ------------------------------------------------------------ claims
Configured(ss) == Get(ss, "api_configured", FALSE)

HasModel(ss) == Has(ss, "gemini_model") /\ Truthy(ss.gemini_model)

Ready(ss) == Configured(ss) /\ HasModel(ss) /\ Has(ss, "chat_session")

AllReplies == \A i \in 1..Len(turns) : turns[i].outcome = "Reply"

\* new is old with the messages of tail appended and nothing else changed
Extends(old, new, n) == Len(new) = Len(old) + n /\ SubSeq(new, 1, Len(old)) = old

\* C1: after N turns that all ended in a reply, taken on a transcript that
\* was empty, the transcript holds 2N messages, the odd ones from the user
\* and the even ones from the model, and the user messages are the prompts
\* in the order they were submitted.
C1_ReplyTurnsAlternate ==
    AllReplies =>
        LET m == Transcript(session_state)
        IN  /\ Len(m) = 2 * Len(turns)
            /\ \A i \in 1..Len(turns) :
                   /\ m[2 * i - 1] = Message("user", turns[i].prompt)
                   /\ m[2 * i].role = "model"

C1_Witness ==
    /\ AllReplies
    /\ Len(turns) = MaxTurns
    /\ turns[1].prompt = PromptB
    /\ turns[MaxTurns].prompt = PromptA
    /\ Len(Transcript(session_state)) = 2 * MaxTurns

\* C2: a turn with any outcome but CredentialError appends one user
\* message and then one model message to the transcript, and nothing else.
C2_TurnAppendsUserThenModel ==
    [][ (outcome' \notin {"none", "CredentialError"}) =>
            LET old == Transcript(session_state)
                new == Transcript(session_state')
            IN  /\ Extends(old, new, 2)
                /\ new[Len(old) + 1].role = "user"
                /\ new[Len(old) + 1].content \in Prompts
                /\ new[Len(old) + 2].role = "model" ]_vars

C2_Witness ==
    /\ outcome = "QuotaError"
    /\ Len(turns) = MaxTurns
    /\ Len(Transcript(session_state)) = 2 * MaxTurns

RaisedPermissionDenied ==
    reply.kind = "raise" /\ Contains(reply.text, MarkerPermissionDenied)

Invalidated(ss) ==
    ~Configured(ss) /\ ~Has(ss, "gemini_model") /\ ~Has(ss, "chat_session")

\* C3 as stated: whenever send_message raised an error whose text contains
\* PERMISSION_DENIED, the outcome is CredentialError and the model handle
\* and the chat session are gone.
C3_AnyPermissionDeniedIsCredentialError ==
    RaisedPermissionDenied =>
        outcome = "CredentialError" /\ Invalidated(session_state)

\* C3 as amended: an error that is neither a BlockedPromptException nor a
\* StopCandidateException and whose text contains PERMISSION_DENIED gives
\* CredentialError, with the flag cleared and both handles gone; and once
\* that has happened no run calls send_message unless a configure call has
\* succeeded since.
C3_PermissionDeniedInvalidates ==
    /\ [](( /\ RaisedPermissionDenied
            /\ reply.cls \notin {"BlockedPromptException", "StopCandidateException"} )
          => (outcome = "CredentialError" /\ Invalidated(session_state)))
    /\ [][ (cred_error /\ "send_message" \in calls')
              => "configure" \in (calls' \ failed') ]_vars

\* A later run of a session whose last turn raised 403 PERMISSION_DENIED
\* (the one detail among Responses that gives CredentialError).
C3_Witness ==
    /\ cred_error
    /\ turns # <<>> /\ turns[Len(turns)].outcome = "CredentialError"
    /\ event = "run"
    /\ Invalidated(session_state)
    /\ ~widgets.chat_input

\* C4: a turn that ends in CredentialError appends the user message and no
\* model message: the transcript grows by one message, of role user.
C4_CredentialErrorAppendsUserOnly ==
    [][ (outcome' = "CredentialError") =>
            LET old == Transcript(session_state)
                new == Transcript(session_state')
            IN  /\ Extends(old, new, 1)
                /\ new[Len(new)].role = "user"
                /\ new[Len(new)].content \in Prompts ]_vars

C4_Witness ==
    /\ outcome = "CredentialError"
    /\ Len(Transcript(session_state)) = 2 * (MaxTurns - 1) + 1

SoftOutcomes == {"Blocked", "Empty", "QuotaError", "OtherError"}

\* C5: a turn that ends Blocked, Empty, QuotaError or OtherError leaves the
\* configured flag and the model handle as they were and keeps the chat
\* session it sent the prompt on; the chat input is drawn again, and the
\* next prompt goes to send_message with no other gateway call.
C5_SoftOutcomesKeepState ==
    /\ [][ (outcome' \in SoftOutcomes) =>
             /\ Ready(session_state')
             /\ Configured(session_state) = Configured(session_state')
             /\ session_state'.gemini_model = session_state.gemini_model
             /\ session_state'.chat_session =
                    [session_state.chat_session EXCEPT !.sent = @ + 1]
             /\ widgets'.chat_input /\ ~rerun_pending' ]_vars
    /\ [][ (outcome \in SoftOutcomes /\ event' = "prompt") =>
             calls' = {"send_message"} ]_vars

C5_Witness ==
    /\ outcome = "QuotaError"
    /\ Len(turns) = MaxTurns
    /\ turns[1].outcome = "OtherError"
    /\ Ready(session_state)

Gateway == {"configure", "initializeModel", "openSession"}

\* C6 as stated: the run that follows a CredentialError, when it resolves a
\* non-empty key, calls configure, initializeModel and openSession again, and
\* is Ready when none of them fails.
C6_CredentialErrorReconfigures ==
    [][ (outcome = "CredentialError" /\ API_KEY' # "") =>
            /\ Gateway \subseteq calls'
            /\ (failed' = {} => Ready(session_state')) ]_vars

\* C6 as amended: a CredentialError is followed at once by a rerun, which
\* completes; that run and every later run of the session make no gateway
\* call at all, whatever key they resolve: the configured flag stays false,
\* no chat input is drawn and Ready is not reached again.
C6_CredentialErrorStaysDegraded ==
    /\ [][ (outcome = "CredentialError") =>
              (rerun_pending /\ event' = "rerun" /\ ~rerun_pending') ]_vars
    /\ [][ cred_error =>
              /\ calls' = {}
              /\ cred_error'
              /\ ~Configured(session_state')
              /\ ~Ready(session_state')
              /\ ~widgets'.chat_input /\ ~widgets'.button ]_vars

C6_Witness ==
    /\ cred_error
    /\ event = "run"
    /\ API_KEY \in Keys
    /\ nConfigure = 1
    /\ ~Configured(session_state)

SameKey(ss1, ss2, k) == Has(ss1, k) = Has(ss2, k) /\ (Has(ss1, k) => ss1[k] = ss2[k])

ButtonOffered == ~rerun_pending => (widgets.button <=> Configured(session_state))

ClearEffect ==
    [][ (event' = "clear") =>
            /\ widgets.button /\ Configured(session_state)
            /\ ~Has(session_state', "chat_session")
            /\ Has(session_state', "messages") /\ session_state'.messages = <<>>
            /\ SameKey(session_state, session_state', "gemini_model")
            /\ SameKey(session_state, session_state', "api_configured")
            /\ calls' = {}
            /\ rerun_pending' ]_vars

ReopensOnRetainedModel ==
    /\ calls' = {"openSession"}
    /\ SameKey(session_state, session_state', "gemini_model")
    /\ Configured(session_state')
    /\ (failed' = {} =>
           /\ Has(session_state', "chat_session")
           /\ session_state'.chat_session = ChatSession(session_state.gemini_model))
    /\ (failed' # {} => ~Has(session_state', "chat_session"))

\* C7 as stated: the button is offered whenever the API is configured; it
\* deletes the chat session and empties the transcript, keeping the model
\* handle and the flag; the run that follows opens a fresh chat session on
\* the retained handle, calling neither configure nor initializeModel.
C7_ClearReopensSession ==
    /\ []ButtonOffered
    /\ ClearEffect
    /\ [][ (event = "clear" /\ rerun_pending) => ReopensOnRetainedModel ]_vars

\* C7 as amended: as stated when the retained model handle is a model; when
\* it is the None a failed initializeModel left, the run that follows makes
\* no gateway call and stops with no chat session.
C7_ClearReopensSessionOnModel ==
    /\ []ButtonOffered
    /\ ClearEffect
    /\ [][ (event = "clear" /\ rerun_pending) =>
              IF HasModel(session_state) THEN ReopensOnRetainedModel
              ELSE /\ calls' = {}
                   /\ SameKey(session_state, session_state', "gemini_model")
                   /\ ~Has(session_state', "chat_session")
                   /\ ~widgets'.chat_input ]_vars

\* A fresh session opened after clearing a conversation that had turns.
C7_Witness ==
    /\ event = "rerun"
    /\ calls = {"openSession"}
    /\ failed = {}
    /\ nInit = 1 /\ nConfigure = 1
    /\ session_state.chat_session.sent = 0
    /\ session_state.messages = <<>>

\* The session state a clear and the run after it lead to, the run's
\* start_chat answering openOk.
ClearAndRerun(ss, openOk) ==
    EnsureMessages(EnsureChatSession(EnsureModel(
        Sidebar(ConfigBlock(StartRun(ClearChatHistory(ss), genai_key), API_KEY, TRUE),
                Event("rerun", <<>>)), TRUE), openOk)).ss

\* C8: pressing clear on an empty transcript leaves the flag, the model
\* handle and the (empty) transcript as they were and only deletes the chat
\* session, which the next run opens afresh; and clearing twice in a row
\* leads to the state clearing once leads to.
C8_ClearIdempotent ==
    /\ [][ (event' = "clear" /\ Transcript(session_state) = <<>>) =>
              /\ Transcript(session_state') = <<>>
              /\ \A k \in DOMAIN session_state \ {"chat_session", "messages"} :
                     SameKey(session_state, session_state', k)
              /\ DOMAIN session_state' \subseteq DOMAIN session_state \cup {"messages"}
              /\ ~Has(session_state', "chat_session") ]_vars
    /\ [](Configured(session_state) =>
              /\ ClearChatHistory(ClearChatHistory(session_state))
                     = ClearChatHistory(session_state)
              /\ \A a, b \in BOOLEAN :
                     ClearAndRerun(ClearAndRerun(session_state, a), b)
                         = ClearAndRerun(session_state, b)
              /\ (Transcript(session_state) = <<>> /\ Ready(session_state)) =>
                     ClearAndRerun(session_state, TRUE) = session_state)

\* A clear pressed on the empty transcript of a ready session.
C8_Witness ==
    /\ event = "clear"
    /\ turns = <<>>
    /\ outcome = "none"
    /\ HasModel(session_state)
    /\ ~Has(session_state, "chat_session")
    /\ session_state.messages = <<>>
    /\ nConfigure = 1

\* C9: the first run of a session that resolves a non-empty key and in which
\* configure, initializeModel and openSession all succeed ends Ready, with an
\* empty transcript and the chat input drawn; and however many turns and
\* runs follow, a Ready session has called configure once and
\* initializeModel once.
C9_FirstRunReadyOnce ==
    /\ [][ ( /\ ~Has(session_state, "attempted_initial_config")
             /\ API_KEY' \in Keys
             /\ failed' = {} ) =>
              /\ calls' = Gateway
              /\ Ready(session_state')
              /\ session_state'.gemini_model = ModelHandle(API_KEY')
              /\ session_state'.chat_session = ChatSession(ModelHandle(API_KEY'))
              /\ Has(session_state', "messages") /\ session_state'.messages = <<>>
              /\ widgets'.chat_input ]_vars
    /\ [](Ready(session_state) => (nConfigure = 1 /\ nInit = 1))

C9_Witness ==
    /\ Ready(session_state)
    /\ AllReplies /\ Len(turns) = MaxTurns
    /\ event = "run"
    /\ nConfigure = 1 /\ nInit = 1

\* C10: a run in which configure, initializeModel or openSession fails
\* leaves the transcript as it was, draws no chat input, takes no turn and
\* does not call send_message.
C10_FailedSetupIsDegraded ==
    [][ (failed' # {}) =>
            /\ Transcript(session_state') = Transcript(session_state)
            /\ SameKey(session_state, session_state', "messages")
            /\ ~widgets'.chat_input
            /\ outcome' = "none"
            /\ "send_message" \notin calls'
            /\ ~Ready(session_state') ]_vars

C10_Witness ==
    /\ failed = {"openSession"}
    /\ event = "rerun"
    /\ HasModel(session_state)
    /\ ~widgets.chat_input

Attempted(ss) == Get(ss, "attempted_initial_config", FALSE)

\* C11 as stated: a run that resolves a credential other than the one the
\* run before it resolved discards the model handle and the chat session
\* made under the old credential, makes them again under the new one and
\* clears the transcript; a change to a non-empty credential has configure
\* called.
C11_CredentialChangeInvalidates ==
    [][ (Attempted(session_state) /\ API_KEY' # API_KEY) =>
            /\ Transcript(session_state') = <<>>
            /\ (API_KEY' # "" =>
                   /\ "configure" \in calls'
                   /\ (failed' = {} =>
                          /\ Ready(session_state')
                          /\ session_state'.gemini_model = ModelHandle(API_KEY'))) ]_vars

\* C11 as amended: the credential a run resolves is compared with nothing.
\* Only the first run of a session, when its credential is not empty, calls
\* configure; on every later run a changed credential invalidates nothing:
\* configure is not called, the key the process is configured with stays,
\* and a run that neither takes a turn nor handles the clear button keeps
\* the model handle, the chat session and the transcript as they were.
C11_CredentialChangeIgnored ==
    /\ [][ (~Attempted(session_state) /\ API_KEY' # "") => "configure" \in calls' ]_vars
    /\ [][ (Attempted(session_state) /\ API_KEY' # API_KEY) =>
              /\ "configure" \notin calls'
              /\ genai_key' = genai_key
              /\ (HasModel(session_state) /\ outcome' # "CredentialError") =>
                     session_state'.gemini_model = session_state.gemini_model
              /\ (Ready(session_state) /\ event' = "run") =>
                     session_state' = session_state ]_vars

\* A session made under k1 going on, transcript and handles kept, in a run
\* that resolved k2.
C11_Witness ==
    /\ API_KEY = "k2"
    /\ genai_key = "k1"
    /\ event = "run"
    /\ Ready(session_state)
    /\ session_state.gemini_model = ModelHandle("k1")
    /\ Len(session_state.messages) = 2 * MaxTurns

\* C15: the transcript is append-only.  A run leaves it as it was, or
\* appends at its end the user message of a turn, followed or not by the
\* model message of that turn, or empties it; what was there is never
\* changed, dropped or reordered, and it is emptied only by the clear button
\* or by a configure call that succeeded.
C15_TranscriptAppendOnly ==
    [][ LET old == Transcript(session_state)
            new == Transcript(session_state')
        IN  \/ new = old
            \/ /\ Extends(old, new, 1)
               /\ new[Len(new)].role = "user"
            \/ /\ Extends(old, new, 2)
               /\ new[Len(new) - 1].role = "user"
               /\ new[Len(new)].role = "model"
            \/ /\ new = <<>>
               /\ event' = "clear" \/ "configure" \in (calls' \ failed') ]_vars

\* The last turn of a transcript that already held a turn.
C15_Witness ==
    /\ Len(turns) = MaxTurns
    /\ event = "prompt"
    /\ Len(Transcript(session_state)) = 2 * MaxTurns
    /\ session_state.messages[1].content = PromptB
    /\ session_state.messages[2 * MaxTurns - 1].content = PromptA

\* C16: configure is attempted at most once in a UI session.  Every run
\* leaves attempted_initial_config set, it is never reset, and a run that
\* finds it set does not call configure; so a session left unconfigured by
\* a failed configure, by an empty credential on its first run or by a
\* CredentialError stays unconfigured.
C16_ConfigureAtMostOnce ==
    /\ [](nConfigure <= 1)
    /\ [](event # "none" => Attempted(session_state))
    /\ [][ Attempted(session_state) =>
              /\ Attempted(session_state')
              /\ "configure" \notin calls'
              /\ (~Configured(session_state) => ~Configured(session_state')) ]_vars

\* A later run of a session whose first run resolved no credential: it
\* resolves one now and configure is still not called.
C16_Witness ==
    /\ nConfigure = 0
    /\ Attempted(session_state)
    /\ API_KEY \in Keys
    /\ ~Configured(session_state)
    /\ calls = {}

\* C17: after every run a chat session is present only with a model handle
\* that is not None, and a model handle that is not None only with the
\* configured flag set.
C17_HandlesImplyConfigured ==
    /\ Has(session_state, "chat_session") => HasModel(session_state)
    /\ Has(session_state, "chat_session") =>
           session_state.chat_session.model = session_state.gemini_model
    /\ HasModel(session_state) => Configured(session_state)

\* The state a CredentialError leaves, after handles had been made.
C17_Witness ==
    /\ cred_error
    /\ nInit = 1
    /\ ~Configured(session_state)
    /\ ~Has(session_state, "gemini_model")
    /\ ~Has(session_state, "chat_session")

ModelIsNone(ss) == Has(ss, "gemini_model") /\ ss.gemini_model = None

\* C18: a failed initializeModel stores None as the model handle, and from
\* then on no run calls initializeModel (or anything else) and every run
\* stops before the chat input; a failed openSession stores nothing, and
\* every later run that gets past the sidebar calls openSession again,
\* storing the chat session when the call succeeds.
C18_ModelFailureSticksSessionRetried ==
    /\ [][ ("initializeModel" \in failed') => ModelIsNone(session_state') ]_vars
    /\ [][ ModelIsNone(session_state) =>
              /\ ModelIsNone(session_state')
              /\ calls' = {}
              /\ ~widgets'.chat_input
              /\ outcome' = "none" ]_vars
    /\ [][ ("openSession" \in failed') =>
              /\ ~Has(session_state', "chat_session")
              /\ HasModel(session_state') ]_vars
    /\ [][ ( /\ Configured(session_state) /\ HasModel(session_state)
             /\ ~Has(session_state, "chat_session")
             /\ event' # "clear" ) =>
              /\ "openSession" \in calls'
              /\ "initializeModel" \notin calls'
              /\ ("openSession" \notin failed' <=> Has(session_state', "chat_session")) ]_vars

\* A run that opens the chat session an earlier run failed to open.
C18_Witness ==
    /\ event = "run"
    /\ calls = {"openSession"}
    /\ failed = {}
    /\ Has(session_state, "chat_session")
    /\ nInit = 1

LastMessage(ss) == ss.messages[Len(ss.messages)]

\* The fixed text the except branch puts before the detail.
ErrorPrefix(kind) == IF kind = "QuotaError" THEN QuotaPrefix ELSE UnexpectedPrefix

\* The detail as C12 has it stored: cut to its first 100 characters and
\* marked with an ellipsis when it is longer, left as it is otherwise.
TruncatedDetail(d) ==
    IF Len(d) > TruncLen THEN SubSeq(d, 1, TruncLen) \o Ellipsis ELSE d

\* C12: the model message of a turn that failed with a quota or other
\* error holds, after the branch's fixed text, the first 100 characters of
\* the detail and an ellipsis when the detail is longer than 100 characters
\* (150, say), and the detail as it is, with no ellipsis, when it is not.
C12_DetailTruncatedOnlyWhenLong ==
    (outcome \in {"QuotaError", "OtherError"}) =>
        LastMessage(session_state) =
            Message("model", ErrorPrefix(outcome) \o TruncatedDetail(reply.text))

\* The fragments of parts one after the other, taken from the left.
InOrder(parts) ==
    LET upto[n \in 0..Len(parts)] == IF n = 0 THEN <<>> ELSE upto[n - 1] \o parts[n]
    IN  upto[Len(parts)]

\* C13: the model message of a turn whose response has parts is the texts
\* of the parts one after the other with nothing between them, whatever
\* prompt feedback the response carries: "Hel", "lo" gives "Hello".
C13_ReplyIsPartsInOrder ==
    (outcome = "Reply") =>
        /\ reply.parts # <<>>
        /\ LastMessage(session_state) = Message("model", InOrder(reply.parts))
        /\ (reply.parts = <<TextHel, TextLo>> =>
               LastMessage(session_state).content = TextHello)

\* "Hel", "lo" returned together with a block reason.
C13_Witness ==
    /\ outcome = "Reply"
    /\ reply.parts = <<TextHel, TextLo>>
    /\ reply.prompt_feedback = PromptFeedback(Safety, ReasonMessage)
    /\ LastMessage(session_state).content = TextHello

BlockedReply(resp) ==
    /\ resp.kind = "response"
    /\ resp.parts = <<>>
    /\ Truthy(resp.prompt_feedback)
    /\ Truthy(resp.prompt_feedback.block_reason)

\* What a blocked turn does to the session state, the content apart.
BlockedTurnEffect ==
    LET old == Transcript(session_state)
        new == Transcript(session_state')
    IN  /\ outcome' = "Blocked"
        /\ Extends(old, new, 2)
        /\ new[Len(new) - 1].role = "user"
        /\ new[Len(new)].role = "model"
        /\ SameKey(session_state, session_state', "api_configured")
        /\ SameKey(session_state, session_state', "gemini_model")
        /\ session_state'.chat_session =
               [session_state.chat_session EXCEPT !.sent = @ + 1]

\* C14 as stated: a response with no parts and block reason R gives
\* Blocked, one model message whose content contains the name of R, and the
\* flag and the handles as they were.
C14_BlockedContentNamesReason ==
    [][ BlockedReply(reply') =>
            /\ BlockedTurnEffect
            /\ Contains(LastMessage(session_state').content,
                        reply'.prompt_feedback.block_reason.name) ]_vars

\* C14 as amended: the content contains the block reason message when the
\* response carries one, and the name of R when it does not.
C14_BlockedContentExplainsReason ==
    [][ BlockedReply(reply') =>
            /\ BlockedTurnEffect
            /\ LET fb == reply'.prompt_feedback
                   content == LastMessage(session_state').content
               IN  IF fb.block_reason_message # <<>>
                   THEN Contains(content, fb.block_reason_message)
                   ELSE Contains(content, fb.block_reason.name) ]_vars

C14_Witness ==
    /\ outcome = "Blocked"
    /\ reply.prompt_feedback = PromptFeedback(Safety, <<>>)
    /\ Contains(LastMessage(session_state).content, ReasonSafety)
    /\ Ready(session_state)

HasMarker(text, marker) == Contains(Upper(text), marker)

\* The outcome C19 gives an exception, by its precedence.
ClaimedOutcome(e) ==
    CASE e.cls = "BlockedPromptException" -> "BlockedPrompt"
      [] e.cls = "StopCandidateException" -> "StopCandidate"
      [] OTHER ->
           IF \E m \in {MarkerApiKey, MarkerPermissionDenied, MarkerUnauthenticated} :
                  HasMarker(e.text, m)
           THEN "CredentialError"
           ELSE IF HasMarker(e.text, MarkerResourceExhausted) THEN "QuotaError"
                ELSE "OtherError"

\* C19: a failed turn gets one outcome, decided in this order: a blocked
\* prompt or stopped candidate exception is never a CredentialError, even
\* with a credential marker in its text; otherwise API_KEY,
\* PERMISSION_DENIED or UNAUTHENTICATED in any letter case gives
\* CredentialError, also next to RESOURCE_EXHAUSTED; otherwise
\* RESOURCE_EXHAUSTED gives QuotaError; anything else gives OtherError.
C19_ClassificationPrecedence ==
    (reply.kind = "raise") =>
        /\ outcome = ClaimedOutcome(reply)
        /\ (reply = Raised("BlockedPromptException", DetailBlockedKey) =>
               outcome = "BlockedPrompt")
        /\ (reply = Raised("StopCandidateException", DetailStopped) =>
               outcome = "StopCandidate")
        /\ (reply.text \in {DetailDenied, DetailLowerKey, DetailBoth}
              /\ reply.cls = "Exception" => outcome = "CredentialError")
        /\ (reply.text \in {DetailQuota, DetailMixedQuota} => outcome = "QuotaError")
        /\ (reply.text \in {DetailShort, DetailAtLimit, DetailOverLimit}
               => outcome = "OtherError")

\* Both a credential marker and RESOURCE_EXHAUSTED in the text.
C19_Witness ==
    /\ reply = Raised("Exception", DetailBoth)
    /\ outcome = "CredentialError"
    /\ Invalidated(session_state)

====
